---- MODULE Spec2Model ----
(***************************************************************************)
(* aso-scramble-chk (src/src/main.rs): a run of main / compute_distance.   *)
(* Query rows are read and profiled, then library rows are read one by one *)
(* and each is matched against every query as soon as it is read; after    *)
(* the library is exhausted the report is printed, each query's matches    *)
(* sorted by distance with sort_unstable_by.                               *)
(*                                                                         *)
(* A sequence string is a tuple of characters; a character is a token.     *)
(* EAcute stands for U+00E9, a character whose UTF-8 encoding is 2 bytes.  *)
(***************************************************************************)
EXTENDS Integers, Sequences, FiniteSets, TLC

VARIABLES
    list_by,          \* cli.list_by, the selected Dist
    pc,               \* position of the run inside main / compute_distance
    input_seq_props,  \* Vec<AsoProfile> of the queries
    library_asos,     \* Vec<Rc<AsoProfile>> of the library
    evals,            \* history: the (query, library) pairs the filter was run on
    output,           \* the lines printed on stdout so far
    next_report,      \* index of the next query the report loop prints
    result,           \* what compute_distance returned to main
    exit,             \* how the process ended
    cause,            \* history: the fatal condition met, if any
    arg,              \* AsoProfile::new taken alone: its seq argument
    made              \* AsoProfile::new taken alone: the profile built

vars == <<list_by, pc, input_seq_props, library_asos, evals, output,
          next_report, result, exit, cause, arg, made>>

(***************************************************************************)
(* Bounds and input sets                                                   *)
(***************************************************************************)
\* rows read in one run, both sources together
MaxRows == 3
\* longest seq argument of AsoProfile::new taken alone
MaxSeqLen == 4
\* largest value the sift3 heuristic is taken to return
MaxSift3 == 1

EAcute == "U+00E9"
Chars == {"A", "T", "G", "C", "X", EAcute}

\* The sequences a source row can carry in a run.
SeqPool ==
    { <<"A", "T", "G">>, <<"A", "G", "T">>, <<"T", "G", "A">>,
      <<"A", "T", "C">>, <<"X">>, <<"X", "X">>, <<EAcute>> }

\* Every seq argument of AsoProfile::new taken alone.
AllSeqs == UNION { [1..n -> Chars] : n \in 0..MaxSeqLen }

Dist == {"Hamming", "Levenshtein", "Sift3"}

\* The name in column 1 of the idx-th row of a source.
NameOf(src, idx) == <<src, idx>>

\* What the csv reader yields for one row: an error, or a record of fields.
Records(src, idx) ==
    {[ok |-> FALSE, fields |-> <<>>]}
      \cup {[ok |-> TRUE, fields |-> <<NameOf(src, idx)>>]}
      \cup {[ok |-> TRUE, fields |-> <<NameOf(src, idx), s>>] : s \in SeqPool}

(***************************************************************************)
(* AsoProfile::new, atgc_count, char_windows                               *)
(***************************************************************************)
RECURSIVE SumSeq(_)
SumSeq(ns) == IF ns = <<>> THEN 0 ELSE ns[1] + SumSeq(Tail(ns))

\* char::len_utf8
LenUtf8(c) == IF c = EAcute THEN 2 ELSE 1

\* a length that counts characters, not bytes
StrLenChars(seq) == Len(seq)

\* str::len: the length in bytes
StrLen(seq) == SumSeq([i \in DOMAIN seq |-> LenUtf8(seq[i])])

\* char_windows(src, 1): one one-character window per character, in order
CharWindows1(src) == [i \in DOMAIN src |-> <<src[i]>>]

\* char_windows(seq, 1).filter(|c| c == <letter>).count()
CountWindows(seq, letter) ==
    Cardinality({i \in DOMAIN CharWindows1(seq) : CharWindows1(seq)[i] = <<letter>>})

atgc_count(seq) ==
    <<CountWindows(seq, "A"), CountWindows(seq, "T"),
      CountWindows(seq, "G"), CountWindows(seq, "C")>>

AsoProfileNew(name, seq) ==
    [name |-> name, seq |-> seq, aso_len |-> StrLen(seq),
     atgc |-> atgc_count(seq), aso_names |-> <<>>]

(***************************************************************************)
(* The three metrics of the distance crate                                 *)
(***************************************************************************)
Min2(a, b) == IF a < b THEN a ELSE b

\* positions, among those both strings have, at which the characters differ
ZipDiff(s, t) ==
    Cardinality({i \in 1..Min2(Len(s), Len(t)) : s[i] # t[i]})

\* hamming(s, t): Ok(count of differing positions) on equal-length operands.
\* On operands of unequal character count the crate answers Err when it
\* compares character counts, and Ok when it compares the byte lengths the
\* caller's filter has already found equal: both outcomes are kept.
hamming(s, t) ==
    IF Len(s) = Len(t)
    THEN {[err |-> FALSE, val |-> ZipDiff(s, t)]}
    ELSE {[err |-> TRUE, val |-> 0], [err |-> FALSE, val |-> ZipDiff(s, t)]}

RECURSIVE Lev(_, _, _, _)
Lev(s, t, i, j) ==
    IF i = 0 THEN j
    ELSE IF j = 0 THEN i
    ELSE LET sub == Lev(s, t, i - 1, j - 1) + (IF s[i] = t[j] THEN 0 ELSE 1)
             del == Lev(s, t, i - 1, j) + 1
             ins == Lev(s, t, i, j - 1) + 1
         IN  Min2(sub, Min2(del, ins))

levenshtein(s, t) == {[err |-> FALSE, val |-> Lev(s, t, Len(s), Len(t))]}

\* sift3(s, t): a heuristic of the crate; any value of its range is kept.
sift3(s, t) == {[err |-> FALSE, val |-> v] : v \in 0..MaxSift3}

\* the match on list_method
Distance(list_method, s, t) ==
    CASE list_method = "Hamming" -> hamming(s, t)
      [] list_method = "Levenshtein" -> levenshtein(s, t)
      [] list_method = "Sift3" -> sift3(s, t)

(***************************************************************************)
(* The matching closure of the library loop                                *)
(***************************************************************************)
\* a filter that lets a textually identical sequence through
MatchFilterAnySeq(in_aso, aso_profile) ==
    /\ in_aso.aso_len = aso_profile.aso_len
    /\ in_aso.atgc = aso_profile.atgc

\* a filter that does not compare the compositions
MatchFilterAnyAtgc(in_aso, aso_profile) ==
    /\ in_aso.aso_len = aso_profile.aso_len
    /\ in_aso.seq # aso_profile.seq

MatchFilter(in_aso, aso_profile) ==
    /\ in_aso.aso_len = aso_profile.aso_len
    /\ in_aso.atgc = aso_profile.atgc
    /\ in_aso.seq # aso_profile.seq

\* One run of the closure on in_aso: the set of its possible effects.
MatchOne(in_aso, lib_idx, aso_profile, list_method) ==
    IF ~MatchFilter(in_aso, aso_profile)
    THEN {[aso |-> in_aso, passed |-> FALSE, panic |-> FALSE]}
    ELSE {IF d.err
          THEN [aso |-> in_aso, passed |-> TRUE, panic |-> TRUE]
          ELSE [aso |-> [in_aso EXCEPT !.aso_names =
                            Append(@, [lib |-> lib_idx, dist |-> d.val])],
                passed |-> TRUE, panic |-> FALSE]
          : d \in Distance(list_method, in_aso.seq, aso_profile.seq)}

\* input_seq_props.iter_mut().for_each(..) from query i on: the possible
\* outcomes; an unwrap that fails ends the loop where it stands.
RECURSIVE ForEach(_, _, _, _, _, _)
ForEach(props, done, i, lib_idx, aso_profile, list_method) ==
    IF i > Len(props)
    THEN {[props |-> props, evals |-> done, panic |-> FALSE]}
    ELSE UNION {
           LET now == done \cup {[q |-> i, lib |-> lib_idx, passed |-> r.passed]}
           IN  IF r.panic
               THEN {[props |-> props, evals |-> now, panic |-> TRUE]}
               ELSE ForEach([props EXCEPT ![i] = r.aso], now, i + 1,
                            lib_idx, aso_profile, list_method)
           : r \in MatchOne(props[i], lib_idx, aso_profile, list_method)}

(***************************************************************************)
(* The run                                                                 *)
(***************************************************************************)
RowsRead == Len(input_seq_props) + Len(library_asos)

\* record.len() < 2
Incomplete(record) == Len(record.fields) < 2

\* a loop that skips an incomplete row and goes on
SkipIncomplete(loop_pc) == loop_pc

\* panic!("Incomplete file. Name and sequence necessary"): where the run goes
PanicIncomplete(loop_pc) == "panicked"

\* a library loop that also runs while queries are still being read
LibraryLoopAnywhere(p) == p \in {"load_query", "load_library"}

\* the library loop runs once the query loop has ended
LibraryLoopAt(p) == p = "load_library"

Init ==
    /\ list_by \in Dist
    /\ pc = "load_query"
    /\ input_seq_props = <<>>
    /\ library_asos = <<>>
    /\ evals = {}
    /\ output = <<>>
    /\ next_report = 1
    /\ result = "none"
    /\ exit = "running"
    /\ cause = "none"
    /\ arg = <<>>
    /\ made = <<>>

\* one iteration of `for input_result in input`
ReadQueryRow ==
    /\ pc = "load_query"
    /\ RowsRead < MaxRows
    /\ \E record \in Records("q", Len(input_seq_props) + 1) :
         IF ~record.ok
         THEN /\ pc' = "returned"
              /\ result' = "Err"
              /\ cause' = "reader_err_query"
              /\ UNCHANGED input_seq_props
         ELSE IF Incomplete(record)
         THEN /\ pc' = PanicIncomplete(pc)
              /\ cause' = "short_row_query"
              /\ UNCHANGED <<result, input_seq_props>>
         ELSE /\ input_seq_props' =
                    Append(input_seq_props,
                           AsoProfileNew(record.fields[1], record.fields[2]))
              /\ UNCHANGED <<pc, result, cause>>
    /\ UNCHANGED <<list_by, library_asos, evals, output, next_report, exit,
                   arg, made>>

\* the query iterator is exhausted
ReadQueryEnd ==
    /\ pc = "load_query"
    /\ pc' = "load_library"
    /\ UNCHANGED <<list_by, input_seq_props, library_asos, evals, output,
                   next_report, result, exit, cause, arg, made>>

\* one iteration of `for library_result in library`, matching included
ReadLibraryRow ==
    /\ LibraryLoopAt(pc)
    /\ RowsRead < MaxRows
    /\ \E record \in Records("lib", Len(library_asos) + 1) :
         IF ~record.ok
         THEN /\ pc' = "returned"
              /\ result' = "Err"
              /\ cause' = "reader_err_library"
              /\ UNCHANGED <<input_seq_props, library_asos, evals>>
         ELSE IF Incomplete(record)
         THEN /\ pc' = PanicIncomplete(pc)
              /\ cause' = "short_row_library"
              /\ UNCHANGED <<result, input_seq_props, library_asos, evals>>
         ELSE LET aso_profile ==
                      AsoProfileNew(record.fields[1], record.fields[2])
                  lib_idx == Len(library_asos) + 1
              IN  /\ library_asos' = Append(library_asos, aso_profile)
                  /\ \E o \in ForEach(input_seq_props, evals, 1, lib_idx,
                                      aso_profile, list_by) :
                       /\ input_seq_props' = o.props
                       /\ evals' = o.evals
                       /\ IF o.panic
                          THEN pc' = "panicked" /\ cause' = "hamming_err"
                          ELSE UNCHANGED <<pc, cause>>
                  /\ UNCHANGED result
    /\ UNCHANGED <<list_by, output, next_report, exit, arg, made>>

\* the library iterator is exhausted
ReadLibraryEnd ==
    /\ pc = "load_library"
    /\ pc' = "print_header"
    /\ UNCHANGED <<list_by, input_seq_props, library_asos, evals, output,
                   next_report, result, exit, cause, arg, made>>

\* the comparison with its operands swapped
NotGreaterReversed(a, b) == b.dist <= a.dist

\* a.partial_cmp(b) of two entries' distances is not Greater
NotGreater(a, b) == a.dist <= b.dist

Perms(n) == {p \in [1..n -> 1..n] : \A i, j \in 1..n : i # j => p[i] # p[j]}

\* aso_names.sort_unstable_by(..): some ordering of the same entries that the
\* comparison accepts; the order of equal elements is not preserved.
SortUnstableBy(aso_names) ==
    LET n == Len(aso_names)
    IN  {[i \in 1..n |-> aso_names[p[i]]] : p \in
            {q \in Perms(n) :
               \A i \in 1..n, j \in 1..n :
                  i < j => NotGreater(aso_names[q[i]], aso_names[q[j]])}}

\* println!("{:<10}\t{:<20}\t{:<10}\t{:<20}\t{}", "Input ASO", ...)
TableLine == <<"table">>

\* println!("{:<10}\t{:<20}", aso.name, aso.seq)
QueryLine(aso) == <<"query", aso.name, aso.seq>>

\* println!("{:<10}\t{:<20}\t{:<10}\t{:<20}\t{}", "", "", scramble.name, ..)
MatchLine(entry) ==
    <<"match", library_asos[entry.lib].name, library_asos[entry.lib].seq,
      entry.dist>>

\* a report loop that prints no header line for a query without matches
ReportLinesSkipEmpty(aso, sorted) ==
    IF sorted = <<>> THEN <<>>
    ELSE <<<<"query", aso.name, aso.seq>>>> \o
         [i \in 1..Len(sorted) |->
            <<"match", library_asos[sorted[i].lib].name,
              library_asos[sorted[i].lib].seq, sorted[i].dist>>]

\* what one iteration of the report loop prints for aso, its matches sorted
ReportLines(aso, sorted) ==
    <<QueryLine(aso)>> \o [i \in 1..Len(sorted) |-> MatchLine(sorted[i])]

PrintTableHeader ==
    /\ pc = "print_header"
    /\ output' = Append(output, TableLine)
    /\ pc' = "report"
    /\ UNCHANGED <<list_by, input_seq_props, library_asos, evals, next_report,
                   result, exit, cause, arg, made>>

\* one iteration of `for aso in input_seq_props.iter_mut()`
ReportQuery ==
    /\ pc = "report"
    /\ next_report <= Len(input_seq_props)
    /\ \E sorted \in SortUnstableBy(input_seq_props[next_report].aso_names) :
         /\ input_seq_props' =
               [input_seq_props EXCEPT ![next_report].aso_names = sorted]
         /\ output' =
               output \o ReportLines(input_seq_props[next_report], sorted)
    /\ next_report' = next_report + 1
    /\ UNCHANGED <<list_by, pc, library_asos, evals, result, exit, cause,
                   arg, made>>

\* Ok(())
ReturnOk ==
    /\ pc = "report"
    /\ next_report > Len(input_seq_props)
    /\ pc' = "returned"
    /\ result' = "Ok"
    /\ UNCHANGED <<list_by, input_seq_props, library_asos, evals, output,
                   next_report, exit, cause, arg, made>>

\* what main makes of compute_distance's result: `let _ = ..`, then it ends
MainOutcome(r) == "success"

MainReturn ==
    /\ pc = "returned"
    /\ exit' = MainOutcome(result)
    /\ pc' = "exited"
    /\ UNCHANGED <<list_by, input_seq_props, library_asos, evals, output,
                   next_report, result, cause, arg, made>>

\* a panic unwinds out of main: the process ends with a failure status
PanicExit ==
    /\ pc = "panicked"
    /\ exit' = "failure"
    /\ pc' = "exited"
    /\ UNCHANGED <<list_by, input_seq_props, library_asos, evals, output,
                   next_report, result, cause, arg, made>>

Next ==
    \/ ReadQueryRow
    \/ ReadQueryEnd
    \/ ReadLibraryRow
    \/ ReadLibraryEnd
    \/ PrintTableHeader
    \/ ReportQuery
    \/ ReturnOk
    \/ MainReturn
    \/ PanicExit

Spec == Init /\ [][Next]_vars

(***************************************************************************)
(* AsoProfile::new taken alone                                             *)
(***************************************************************************)
InitProfile ==
    /\ list_by = "Hamming"
    /\ pc = "idle"
    /\ input_seq_props = <<>>
    /\ library_asos = <<>>
    /\ evals = {}
    /\ output = <<>>
    /\ next_report = 1
    /\ result = "none"
    /\ exit = "running"
    /\ cause = "none"
    /\ arg \in AllSeqs
    /\ made = <<>>

New ==
    /\ pc = "idle"
    /\ made = <<>>
    /\ made' = <<AsoProfileNew(NameOf("arg", 1), arg)>>
    /\ UNCHANGED <<list_by, pc, input_seq_props, library_asos, evals, output,
                   next_report, result, exit, cause, arg>>

NextProfile == New

SpecProfile == InitProfile /\ [][NextProfile]_vars

(***************************************************************************)
(* Properties                                                              *)
(***************************************************************************)
Queries == 1..Len(input_seq_props)
Libs == 1..Len(library_asos)
Loading == {"load_query", "load_library"}
ShortRow == {"short_row_query", "short_row_library"}
ReaderErr == {"reader_err_query", "reader_err_library"}

\* the library loop ended normally: every library row was matched
MatchingDone == pc \in {"print_header", "report"} \/ result = "Ok"

\* how many entries of query q's match list reference library row l
EntryCount(q, l) ==
    Cardinality({k \in 1..Len(input_seq_props[q].aso_names) :
                    input_seq_props[q].aso_names[k].lib = l})

\* occurrences of character c in seq
Occ(seq, c) == Cardinality({i \in 1..Len(seq) : seq[i] = c})

\* C1: after the matching phase, library row l is an entry of query q's match
\* list exactly when the two profiles have equal length, equal composition
\* and different sequences, and then it is an entry exactly once.
C1_FilterDecidesEntries ==
    MatchingDone =>
      \A q \in Queries, l \in Libs :
         EntryCount(q, l) =
            IF /\ input_seq_props[q].aso_len = library_asos[l].aso_len
               /\ input_seq_props[q].atgc = library_asos[l].atgc
               /\ input_seq_props[q].seq # library_asos[l].seq
            THEN 1 ELSE 0

\* a query with one matching library row and one library row of another name
\* carrying the query's own sequence, which is no entry
C1_Witness ==
    /\ MatchingDone
    /\ \E q \in Queries, l1 \in Libs, l2 \in Libs :
         /\ EntryCount(q, l1) = 1
         /\ library_asos[l2].seq = input_seq_props[q].seq
         /\ library_asos[l2].name # input_seq_props[q].name
         /\ EntryCount(q, l2) = 0

\* C2: two match lines of one query with equal distance stand in the report
\* in the order of their insertion, which is library input order.
C2_StableOrder ==
    \A i \in DOMAIN output, j \in DOMAIN output :
       (/\ i < j
        /\ output[i][1] = "match"
        /\ \A k \in i..j : output[k][1] = "match"
        /\ output[i][4] = output[j][4])
       => output[i][2][2] < output[j][2][2]

\* C3: nothing is printed while rows are being loaded, and a row with fewer
\* than two fields ends the run by a panic with nothing printed.
C3_NoOutputOnShortRow ==
    /\ pc \in Loading => output = <<>>
    /\ cause \in ShortRow =>
         /\ output = <<>>
         /\ result = "none"
         /\ pc \in {"panicked", "exited"}

\* the run ended on a short library row that was not the first library row
C3_Witness ==
    /\ cause = "short_row_library"
    /\ Len(library_asos) >= 1
    /\ Len(input_seq_props) >= 1
    /\ exit = "failure"
    /\ output = <<>>

\* C4: a run in which a fatal row was read (too short, or a reader error)
\* never ends with the success outcome.
C4_FatalRowEndsNonZero ==
    (cause \in ShortRow \cup ReaderErr /\ exit # "running") => exit = "failure"

\* the report of queries i.. as the claim describes it
RECURSIVE BlocksFrom(_)
BlocksFrom(i) ==
    IF i > Len(input_seq_props) THEN <<>>
    ELSE LET aso == input_seq_props[i]
         IN  <<<<"query", aso.name, aso.seq>>>>
             \o [k \in 1..Len(aso.aso_names) |->
                   <<"match", library_asos[aso.aso_names[k].lib].name,
                     library_asos[aso.aso_names[k].lib].seq,
                     aso.aso_names[k].dist>>]
             \o BlocksFrom(i + 1)

\* C5: the finished report is the table line, then for each query in input
\* order one header line followed by that query's own match lines.
C5_ReportStructure ==
    result = "Ok" => output = <<<<"table">>>> \o BlocksFrom(1)

\* a finished report of two queries, the first without and the second with
\* matches
C5_Witness ==
    /\ result = "Ok"
    /\ Len(input_seq_props) >= 2
    /\ input_seq_props[1].aso_names = <<>>
    /\ input_seq_props[2].aso_names # <<>>

\* the lines a step has added to the output
Emitted == SubSeq(output', Len(output) + 1, Len(output'))

\* C6: the match lines one iteration of the report loop prints are a
\* permutation of the entries appended to that query's match list, and their
\* distances are non-decreasing.
C6_SortedPermutation ==
    [][(pc = "report" /\ next_report' = next_report + 1) =>
         LET old == input_seq_props[next_report].aso_names
             lines == Tail(Emitted)
         IN  /\ Len(lines) = Len(old)
             /\ \E p \in Perms(Len(old)) :
                  \A i \in 1..Len(old) :
                     lines[i] = <<"match", library_asos[old[p[i]].lib].name,
                                  library_asos[old[p[i]].lib].seq,
                                  old[p[i]].dist>>
             /\ \A i \in 1..Len(lines), j \in 1..Len(lines) :
                  i < j => lines[i][4] <= lines[j][4]]_vars

\* a reported query whose nearer match was appended after its farther one
C6_Witness ==
    \E q \in Queries :
       /\ q < next_report
       /\ Len(input_seq_props[q].aso_names) >= 2
       /\ input_seq_props[q].aso_names[1].lib > input_seq_props[q].aso_names[2].lib
       /\ input_seq_props[q].aso_names[1].dist < input_seq_props[q].aso_names[2].dist

AATX == <<"A", "A", "T", "X">>

\* C7 as stated: the composition counts A, T, G, C, the length is the
\* character count, and "AATX" has composition (2,0,0,0) and length 4.
C7_CharCountAndExample ==
    made # <<>> =>
      /\ made[1].atgc =
            <<Occ(arg, "A"), Occ(arg, "T"), Occ(arg, "G"), Occ(arg, "C")>>
      /\ made[1].aso_len = Len(arg)
      /\ arg = AATX => (made[1].atgc = <<2, 0, 0, 0>> /\ made[1].aso_len = 4)

\* C7 amended: the composition counts A, T, G, C case-sensitively and ignores
\* every other character; the length is the byte length of the sequence (one
\* more than the character count for each two-byte character); "AATX" has
\* composition (2,1,0,0) and length 4.
C7_ProfileOfSequence ==
    made # <<>> =>
      /\ made[1].seq = arg
      /\ made[1].atgc =
            <<Occ(arg, "A"), Occ(arg, "T"), Occ(arg, "G"), Occ(arg, "C")>>
      /\ made[1].aso_len = Len(arg) + Occ(arg, EAcute)
      /\ arg = AATX => (made[1].atgc = <<2, 1, 0, 0>> /\ made[1].aso_len = 4)

\* the profile of "AATX" has been built
C7_Witness == made # <<>> /\ arg = AATX

\* C8 as stated: no filter evaluation happens while rows of either source
\* are still being read, and a short row anywhere aborts before any.
C8_NoMatchingBeforeLoaded ==
    /\ evals # {} => pc \notin Loading
    /\ cause \in ShortRow => evals = {}

\* C8 amended: no filter evaluation or append happens before every query row
\* has been read and validated; a library row is matched against every query
\* as soon as it has itself been read and validated, before the next library
\* row is read; a short row in the query source aborts before any matching.
C8_MatchingAfterQueriesLoaded ==
    /\ (pc = "load_query" \/ cause \in {"short_row_query", "reader_err_query"})
         => /\ evals = {}
            /\ \A q \in Queries : input_seq_props[q].aso_names = <<>>
    /\ \A e \in evals : e.q \in Queries /\ e.lib \in Libs
    /\ pc = "load_library" =>
         {<<e.q, e.lib>> : e \in evals} = Queries \X Libs

\* a short library row aborted the run after earlier rows had been matched
C8_Witness ==
    /\ cause = "short_row_library"
    /\ pc = "panicked"
    /\ \E e \in evals : e.passed

\* C9: under Hamming every pair handed to the metric has equal character
\* count, and the unwrap on the metric's result never aborts the run.
C9_HammingOperandsEqualLength ==
    list_by = "Hamming" =>
      /\ \A e \in evals :
            e.passed =>
              Len(input_seq_props[e.q].seq) = Len(library_asos[e.lib].seq)
      /\ cause # "hamming_err"

ATGC == {"A", "T", "G", "C"}
OnlyATGC(seq) == \A i \in 1..Len(seq) : seq[i] \in ATGC

\* C10: under Hamming, when every query and library sequence consists of
\* A, T, G, C only, every recorded distance is at least 2.
C10_HammingAtLeastTwo ==
    (/\ list_by = "Hamming"
     /\ \A q \in Queries : OnlyATGC(input_seq_props[q].seq)
     /\ \A l \in Libs : OnlyATGC(library_asos[l].seq))
    => \A q \in Queries :
          \A k \in 1..Len(input_seq_props[q].aso_names) :
             input_seq_props[q].aso_names[k].dist >= 2

\* a Hamming run over A, T, G, C only that recorded distances 2 and 3
C10_Witness ==
    /\ list_by = "Hamming"
    /\ \A q \in Queries : OnlyATGC(input_seq_props[q].seq)
    /\ \A l \in Libs : OnlyATGC(library_asos[l].seq)
    /\ \E q \in Queries :
          \E k1, k2 \in 1..Len(input_seq_props[q].aso_names) :
             /\ input_seq_props[q].aso_names[k1].dist = 2
             /\ input_seq_props[q].aso_names[k2].dist = 3
====
